---- MODULE Spec2Model ----
(***************************************************************************)
(* A model of main.py: the commit-message suggester.                      *)
(*                                                                         *)
(* Python strings are sequences of one-character strings, so that          *)
(* str.split, str.join, str.startswith and str.strip are computed the way  *)
(* Python computes them.  Fixed console messages are TLA+ strings.         *)
(***************************************************************************)
EXTENDS Integers, Sequences, FiniteSets, TLC

(***************************************************************************)
(* Program constants (src/main.py:32-33, 116, 162).                        *)
(***************************************************************************)
MAX_RETRIES == 3
BASE_DELAY == 1
HTTP_OK == 200
SEPARATOR_WIDTH == 50

(***************************************************************************)
(* Bounds of the model.                                                    *)
(***************************************************************************)
MaxFiles == 3
MaxLines == 2

(***************************************************************************)
(* Python string primitives.                                               *)
(***************************************************************************)
NL == "\n"

\* str.startswith(prefix)
StartsWith(line, prefix) ==
    /\ Len(prefix) <= Len(line)
    /\ \A k \in 1..Len(prefix) : line[k] = prefix[k]

\* sep.join(parts), for a list of strings
RECURSIVE JoinStr(_, _)
JoinStr(parts, sep) ==
    IF parts = <<>> THEN <<>>
    ELSE IF Len(parts) = 1 THEN parts[1]
    ELSE parts[1] \o sep \o JoinStr(Tail(parts), sep)

\* text.split("\n"): the pieces between the newlines, in order; a text
\* with n newlines splits into n + 1 pieces, "" into [""]
SplitLines(text) ==
    LET breaks == {k \in 1..Len(text) : text[k] = NL}
        n == Cardinality(breaks)
        \* the position of the i-th newline; 0 and Len(text) + 1 bound the text
        Break(i) == IF i = 0 THEN 0
                    ELSE IF i = n + 1 THEN Len(text) + 1
                    ELSE CHOOSE p \in breaks :
                           Cardinality({q \in breaks : q < p}) = i - 1
    IN [i \in 1..(n + 1) |-> SubSeq(text, Break(i - 1) + 1, Break(i) - 1)]

\* the characters str.strip() removes
Whitespace == {" ", "\n", "\t", "\r"}

RECURSIVE LStrip(_)
LStrip(s) ==
    IF s = <<>> THEN s
    ELSE IF Head(s) \in Whitespace THEN LStrip(Tail(s))
    ELSE s

RECURSIVE RStrip(_)
RStrip(s) ==
    IF s = <<>> THEN s
    ELSE IF s[Len(s)] \in Whitespace THEN RStrip(SubSeq(s, 1, Len(s) - 1))
    ELSE s

\* str.strip()
Strip(s) == RStrip(LStrip(s))

\* "=" * 50
Repeat(c, n) == [k \in 1..n |-> c]

(***************************************************************************)
(* get_git_diffs: the per-file line filter (src/main.py:57-64).            *)
(***************************************************************************)
P_Plus == <<"+">>
P_Minus == <<"-">>
P_Hunk == <<"@", "@">>
P_DiffGit == <<"d", "i", "f", "f", " ", "-", "-", "g", "i", "t">>
P_OldFile == <<"-", "-", "-">>
P_NewFile == <<"+", "+", "+">>
P_Index == <<"i", "n", "d", "e", "x", " ">>

\* a plausible slip: the `index ` test without its trailing space, and the
\* `@@` test with a single `@`
KeepLineLoose(line) ==
    \/ StartsWith(line, P_Plus)
    \/ StartsWith(line, P_Minus)
    \/ StartsWith(line, <<"@">>)
    \/ StartsWith(line, P_DiffGit)
    \/ StartsWith(line, P_OldFile)
    \/ StartsWith(line, P_NewFile)
    \/ StartsWith(line, <<"i", "n", "d", "e", "x">>)

\* the condition of the `if` at lines 60-63
KeepLine(line) ==
    \/ StartsWith(line, P_Plus)
    \/ StartsWith(line, P_Minus)
    \/ StartsWith(line, P_Hunk)
    \/ StartsWith(line, P_DiffGit)
    \/ StartsWith(line, P_OldFile)
    \/ StartsWith(line, P_NewFile)
    \/ StartsWith(line, P_Index)

\* the loop of lines 57-64 over an already split text
RECURSIVE FilterLoop(_, _)
FilterLoop(lines, processed_diff) ==
    IF lines = <<>> THEN processed_diff
    ELSE FilterLoop(Tail(lines),
                    IF KeepLine(Head(lines))
                    THEN Append(processed_diff, Head(lines))
                    ELSE processed_diff)

FilterDiff(diff_text) == FilterLoop(SplitLines(diff_text), <<>>)

\* f"File: {item.a_path}\n" + "\n".join(processed_diff)   (line 67)
FileHeader == <<"F", "i", "l", "e", ":", " ">>

FileDiff(a_path, processed_diff) ==
    FileHeader \o a_path \o <<NL>> \o JoinStr(processed_diff, <<NL>>)


\* "\n\n".join(diffs)   (line 74)
BlockSeparator == <<NL, NL>>

(***************************************************************************)
(* JSON values as json() returns them: a type tag and a value.  A dict's   *)
(* value is a function on its keys, a list's a sequence, a str's a         *)
(* sequence of characters.                                                 *)
(***************************************************************************)
JNull == [t |-> "null", v |-> <<>>]
JNum(n) == [t |-> "number", v |-> n]
JStr(s) == [t |-> "str", v |-> s]
JList(l) == [t |-> "list", v |-> l]
JDict(f) == [t |-> "dict", v |-> f]

Ok(val) == [exc |-> "none", val |-> val]
Err(e) == [exc |-> e, val |-> JNull]

K_choices == <<"c", "h", "o", "i", "c", "e", "s">>

\* `"choices" in data`
PyContainsChoices(data) ==
    CASE data.t = "dict" -> Ok("choices" \in DOMAIN data.v)
      [] data.t = "list" ->
            Ok(\E k \in 1..Len(data.v) :
                  data.v[k].t = "str" /\ data.v[k].v = K_choices)
      [] OTHER -> Err("TypeError")

\* len(x)
PyLen(x) ==
    CASE x.t = "dict" -> Ok(Cardinality(DOMAIN x.v))
      [] x.t \in {"list", "str"} -> Ok(Len(x.v))
      [] OTHER -> Err("TypeError")

\* obj[key] for a string key
PyGetKey(obj, key) ==
    CASE obj.t = "dict" ->
            IF key \in DOMAIN obj.v THEN Ok(obj.v[key]) ELSE Err("KeyError")
      [] OTHER -> Err("TypeError")

\* obj[0]
PyGetFirst(obj) ==
    CASE obj.t = "list" ->
            IF Len(obj.v) > 0 THEN Ok(obj.v[1]) ELSE Err("IndexError")
      [] obj.t = "str" ->
            IF Len(obj.v) > 0 THEN Ok(JStr(<<obj.v[1]>>)) ELSE Err("IndexError")
      [] obj.t = "dict" -> Err("KeyError")
      [] OTHER -> Err("TypeError")

\* x.strip()
PyStrip(x) ==
    IF x.t = "str" THEN Ok(Strip(x.v)) ELSE Err("AttributeError")

(***************************************************************************)
(* What one attempt of call_llm_api does with what the endpoint did        *)
(* (src/main.py:113-127).  The result says how the attempt leaves the      *)
(* loop body: "return" (with ret), "raise" (an exception no except clause  *)
(* of call_llm_api catches) or "fallthrough" (on to the backoff at 129).   *)
(***************************************************************************)
NoneValue == [isNone |-> TRUE, str |-> <<>>]
StrValue(s) == [isNone |-> FALSE, str |-> s]

Returns(r, log) == [flow |-> "return", ret |-> r, exc |-> "none", log |-> log]
Raises(e) == [flow |-> "raise", ret |-> NoneValue, exc |-> e, log |-> "none"]
FallsThrough(log) ==
    [flow |-> "fallthrough", ret |-> NoneValue, exc |-> "none", log |-> log]

\* a slip: the content returned as it came, untrimmed
ExtractContentRaw(choices) ==
    LET first == PyGetFirst(choices) IN
    IF first.exc # "none" THEN Raises(first.exc) ELSE
    LET message == PyGetKey(first.val, "message") IN
    IF message.exc # "none" THEN Raises(message.exc) ELSE
    LET content == PyGetKey(message.val, "content") IN
    IF content.exc # "none" THEN Raises(content.exc) ELSE
    IF content.val.t # "str" THEN Raises("AttributeError") ELSE
    Returns(StrValue(content.val.v), "none")

\* data["choices"][0]["message"]["content"].strip()   (line 119)
ExtractContent(choices) ==
    LET first == PyGetFirst(choices) IN
    IF first.exc # "none" THEN Raises(first.exc) ELSE
    LET message == PyGetKey(first.val, "message") IN
    IF message.exc # "none" THEN Raises(message.exc) ELSE
    LET content == PyGetKey(message.val, "content") IN
    IF content.exc # "none" THEN Raises(content.exc) ELSE
    LET stripped == PyStrip(content.val) IN
    IF stripped.exc # "none" THEN Raises(stripped.exc) ELSE
    Returns(StrValue(stripped.val), "none")

\* a slip: the malformed response only logged, the `return None` forgotten
MalformedRetried == FallsThrough("Unexpected response format")

\* lines 120-122
Malformed == Returns(NoneValue, "Unexpected response format")

\* lines 118-122, given the parsed data
HandleData(data) ==
    LET has == PyContainsChoices(data) IN
    IF has.exc # "none" THEN Raises(has.exc) ELSE
    IF ~has.val THEN Malformed ELSE
    LET choices == PyGetKey(data, "choices") IN
    IF choices.exc # "none" THEN Raises(choices.exc) ELSE
    LET n == PyLen(choices.val) IN
    IF n.exc # "none" THEN Raises(n.exc) ELSE
    IF n.val > 0 THEN ExtractContent(choices.val) ELSE Malformed

\* a slip: a non-200 status answered with None at once instead of a retry
BadStatusGivesUp == Returns(NoneValue, "API request failed with status")

\* lines 123-124
BadStatus == FallsThrough("API request failed with status")

\* lines 126-127: `except requests.exceptions.RequestException`
CaughtRequestException == FallsThrough("Request error")

\* lines 114-127.  resp.net is what requests.post did: "ok" (a response
\* came) or the RequestException it raised.  resp.json is what
\* response.json() does with the body: "ok" (resp.data is the parsed value)
\* or "JSONDecodeError", requests.exceptions.JSONDecodeError, which is a
\* RequestException and so is caught at line 126.
HandleAttempt(resp) ==
    IF resp.net # "ok" THEN CaughtRequestException
    ELSE IF resp.status # HTTP_OK THEN BadStatus
    ELSE IF resp.json = "JSONDecodeError" THEN CaughtRequestException
    ELSE HandleData(resp.data)

\* a slip: BASE_DELAY * 2 * attempt
DelayLinear(attempt) == BASE_DELAY * 2 * attempt

\* delay = BASE_DELAY * (2 ** attempt)   (line 131)
Delay(attempt) == BASE_DELAY * (2 ^ attempt)

\* a slip: `attempt < MAX_RETRIES`, a sleep after the last attempt too
SleepsAfterAlways(attempt) == attempt < MAX_RETRIES

\* the condition of line 130
SleepsAfter(attempt) == attempt < MAX_RETRIES - 1


(***************************************************************************)
(* The inputs: what the file system, git and the endpoint can do.          *)
(***************************************************************************)

\* git.Repo(path): a working tree, a directory that is no repository
\* (InvalidGitRepositoryError), a path that does not exist (NoSuchPathError,
\* which is no InvalidGitRepositoryError)
PathKinds == {"repository", "plain_directory", "missing_path"}

\* lines a unified diff can hold, and near misses of the seven prefixes
L_Added == <<"+", "a">>
L_Removed == <<"-", "a">>
L_Hunk == <<"@", "@", " ", "-", "1", " ", "+", "1", " ", "@", "@">>
L_DiffGit == P_DiffGit \o <<" ", "a", " ", "b">>
L_OldFile == <<"-", "-", "-", " ", "a">>
L_NewFile == <<"+", "+", "+", " ", "b">>
L_Index == <<"i", "n", "d", "e", "x", " ", "1", ".", ".", "2">>
L_Context == <<" ", "a">>
L_Blank == <<>>
L_Binary == <<"B", "i", "n", "a", "r", "y", " ", "f", "i", "l", "e", "s">>
L_ContextPlus == <<" ", "+", "a">>
L_OneAt == <<"@", " ", "a">>
L_DiffOnly == <<"d", "i", "f", "f", " ", "a">>
L_IndexNoSpace == <<"i", "n", "d", "e", "x">>
L_NoNewline == <<"\\", " ", "N", "o", " ", "n", "e", "w", "l", "i", "n", "e">>

LineSet ==
    {L_Added, L_Removed, L_Hunk, L_DiffGit, L_OldFile, L_NewFile, L_Index,
     L_Context, L_Blank, L_Binary, L_ContextPlus, L_OneAt, L_DiffOnly,
     L_IndexNoSpace, L_NoNewline}

\* every diff of at most MaxLines lines of LineSet, as its lines
RECURSIVE LineSeqs(_)
LineSeqs(n) ==
    IF n = 0 THEN {<<>>}
    ELSE LET shorter == LineSeqs(n - 1) IN
         shorter \cup {Append(ls, l) : ls \in {x \in shorter : Len(x) = n - 1},
                                       l \in LineSet}

\* what repo.git.diff(item.a_path) can do for one file of the driver's run:
\* raise, or return one of these texts (given as their lines)
FileCases ==
    << <<L_Context, L_Blank>>,
       <<L_Added>>,
       <<L_DiffGit, L_Index, L_OldFile, L_NewFile, L_Hunk,
         L_Context, L_Added, L_Added, L_Removed>> >>

\* the path of the i-th file repo.index.diff(None) reports
Digits == <<"0", "1", "2", "3", "4", "5", "6", "7", "8", "9">>

PathOf(i) == <<"f", Digits[i + 1], ".", "p", "y">>

\* message contents the endpoint can send
C_Padded == <<" ", " ", "f", "e", "a", "t", ":", " ", "X", " ", NL>>
C_Plain == <<"f", "i", "x">>
C_Blank == <<" ", NL>>

GoodBody(content) ==
    JDict([choices |-> JList(<<JDict([message |->
                                 JDict([content |-> JStr(content)])])>>)])

\* the parsed bodies of 200 responses
Bodies ==
    << GoodBody(C_Padded),
       GoodBody(C_Plain),
       GoodBody(C_Blank),
       JDict([error |-> JStr(<<"x">>)]),
       JDict([choices |-> JList(<<>>)]),
       JList(<<>>),
       JDict([choices |-> JNull]),
       JNum(5),
       JDict([choices |-> JList(<<JDict([index |-> JNum(0)])>>)]),
       JDict([choices |-> JList(<<JDict([message |->
                                     JDict([role |-> JStr(<<"a">>)])])>>)]),
       JDict([choices |-> JList(<<JDict([message |->
                                     JDict([content |-> JNull])])>>)]),
       JDict([choices |-> JList(<<JDict([message |->
                                     JDict([content |-> JNum(5)])])>>)]) >>

NetFailures == {"ConnectionError", "Timeout"}
BadStatuses == {500, 404}

Response(net, status, json, data) ==
    [net |-> net, status |-> status, json |-> json, data |-> data]

(***************************************************************************)
(* The state.                                                              *)
(***************************************************************************)
VARIABLES
    pc,             \* where the run is
    path_kind,      \* what args.repo_path names
    items,          \* repo.index.diff(None): the paths, in the order reported
    idx,            \* the file get_git_diffs's loop is at
    fetched,        \* per file processed: what repo.git.diff did (history)
    in_lines,       \* the lines of the diff text, as git wrote them
    diff_text,      \* diff_text
    processed_diff, \* processed_diff
    diffs,          \* diffs: the blocks so far
    bundle,         \* get_git_diffs's return value
    user_prompt,    \* generate_commit_message's prompt
    attempt,        \* call_llm_api's loop variable
    events,         \* the POSTs sent and the sleeps slept, in order (history)
    outcomes,       \* per attempt: what the endpoint did and how the attempt
                    \* left the loop body (history)
    ret,            \* call_llm_api's return value
    exc,            \* the exception in flight
    stdout,         \* what was printed, in order
    stages,         \* the driver's stages entered, in order (history)
    exit_status     \* "running", "normal" (main returned) or "crash"

vars ==
    <<pc, path_kind, items, idx, fetched, in_lines, diff_text, processed_diff,
      diffs, bundle, user_prompt, attempt, events, outcomes, ret, exc, stdout,
      stages, exit_status>>

extractVars == <<items, idx, fetched, in_lines, diff_text, processed_diff, diffs, bundle>>
apiVars == <<user_prompt, attempt, events, outcomes, ret>>

Line(tag) == [tag |-> tag, body |-> <<>>]
LineWith(tag, body) == [tag |-> tag, body |-> body]

Start ==
    /\ path_kind = "unknown"
    /\ items = <<>>
    /\ idx = 1
    /\ fetched = <<>>
    /\ processed_diff = <<>>
    /\ diffs = <<>>
    /\ bundle = <<>>
    /\ user_prompt = <<>>
    /\ attempt = 0
    /\ events = <<>>
    /\ outcomes = <<>>
    /\ ret = NoneValue
    /\ exc = "none"
    /\ stdout = <<>>
    /\ stages = <<>>
    /\ exit_status = "running"

\* main, once parse_args has returned
Init ==
    /\ pc = "ValidateRepo"
    /\ in_lines = <<>>
    /\ diff_text = <<>>
    /\ Start

(***************************************************************************)
(* main and is_git_repository (src/main.py:36-41, 146-148).                *)
(***************************************************************************)
NotARepositoryMsg == "Error: The specified path is not a valid git repository."

\* is_git_repository(path): TRUE, FALSE, or the exception it lets through
IsGitRepository(kind) ==
    CASE kind = "repository" -> [exc |-> "none", val |-> TRUE]
      [] kind = "plain_directory" -> [exc |-> "none", val |-> FALSE]
      [] kind = "missing_path" -> [exc |-> "NoSuchPathError", val |-> FALSE]

ValidateRepo ==
    /\ pc = "ValidateRepo"
    /\ \E kind \in PathKinds :
         LET r == IsGitRepository(kind) IN
         /\ path_kind' = kind
         /\ stages' = Append(stages, "ValidateRepo")
         /\ IF r.exc # "none"
            THEN /\ exc' = r.exc
                 /\ exit_status' = "crash"
                 /\ pc' = "done"
                 /\ stdout' = stdout
            ELSE IF ~r.val
            THEN /\ stdout' = Append(stdout, Line(NotARepositoryMsg))
                 /\ exit_status' = "normal"
                 /\ pc' = "done"
                 /\ exc' = exc
            ELSE /\ pc' = "ExtractDiffs"
                 /\ UNCHANGED <<stdout, exit_status, exc>>
    /\ UNCHANGED <<extractVars, apiVars>>


(***************************************************************************)
(* get_git_diffs (src/main.py:44-74) and main's test of its result         *)
(* (150-153).                                                              *)
(***************************************************************************)
NoChangesMsg == "No changes detected in the repository."
WarningMsg == "Warning: Could not get diff for"

\* lines 48-52: repo.index.diff(None) reports the modified files, or raises;
\* the call is outside every try, in get_git_diffs and in main
QueryModified ==
    /\ pc = "ExtractDiffs"
    /\ stages' = Append(stages, "ExtractDiffs")
    /\ \/ /\ exc' = "GitCommandError"
          /\ exit_status' = "crash"
          /\ pc' = "done"
          /\ UNCHANGED items
       \/ \E n \in 0..MaxFiles :
            /\ items' = [i \in 1..n |-> PathOf(i)]
            /\ pc' = "ForItem"
            /\ UNCHANGED <<exc, exit_status>>
    /\ UNCHANGED <<path_kind, idx, fetched, in_lines, diff_text, processed_diff,
                   diffs, bundle, apiVars, stdout>>

\* a slip: a block appended whether or not a line was retained
AppendBlockAlways(blocks, a_path, processed) ==
    Append(blocks, FileDiff(a_path, processed))

\* lines 66-68
AppendBlock(blocks, a_path, processed) ==
    IF processed # <<>>
    THEN Append(blocks, FileDiff(a_path, processed))
    ELSE blocks

\* lines 53-72: one iteration of the loop, for the file at idx
ProcessFile ==
    /\ pc = "ForItem"
    /\ idx <= Len(items)
    /\ \/ \* repo.git.diff raises: the warning, and on to the next file
          /\ fetched' = Append(fetched, [path |-> items[idx], raised |-> TRUE,
                                         lines |-> <<>>])
          /\ stdout' = Append(stdout, LineWith(WarningMsg, items[idx]))
          /\ UNCHANGED <<in_lines, diff_text, processed_diff, diffs>>
       \/ \E c \in 1..Len(FileCases) :
            LET text == JoinStr(FileCases[c], <<NL>>) IN
            /\ fetched' = Append(fetched, [path |-> items[idx], raised |-> FALSE,
                                           lines |-> FileCases[c]])
            /\ in_lines' = FileCases[c]
            /\ diff_text' = text
            /\ processed_diff' = FilterDiff(text)
            /\ diffs' = AppendBlock(diffs, items[idx], FilterDiff(text))
            /\ stdout' = stdout
    /\ idx' = idx + 1
    /\ UNCHANGED <<pc, path_kind, items, bundle, apiVars, exc, stages, exit_status>>

\* line 74, and main's lines 150-153
ReturnDiffs ==
    /\ pc = "ForItem"
    /\ idx > Len(items)
    /\ bundle' = JoinStr(diffs, BlockSeparator)
    /\ IF bundle' = <<>>
       THEN /\ stdout' = Append(stdout, Line(NoChangesMsg))
            /\ exit_status' = "normal"
            /\ pc' = "done"
       ELSE /\ pc' = "GenerateMessage"
            /\ UNCHANGED <<stdout, exit_status>>
    /\ UNCHANGED <<path_kind, items, idx, fetched, in_lines, diff_text,
                   processed_diff, diffs, apiVars, exc, stages>>

(***************************************************************************)
(* generate_commit_message and call_llm_api (src/main.py:77-136).          *)
(***************************************************************************)
TerminalMsg == "Failed to get response from LLM after all retries."
RetryingMsg == "Retrying in"

PromptHead ==
    "\nPlease analyze the following git changes and generate an appropriate commit message:\n\n"
PromptTail ==
    "\n\nRemember to follow the conventional commit format and focus on the actual changes made.\n"

\* lines 81-89: the f-string around the bundle; then into call_llm_api
GenerateMessage ==
    /\ pc = "GenerateMessage"
    /\ stages' = Append(stages, "GenerateMessage")
    /\ user_prompt' = [head |-> PromptHead, diffs |-> bundle, tail |-> PromptTail]
    /\ attempt' = 0
    /\ pc' = "Request"
    /\ UNCHANGED <<path_kind, extractVars, events, outcomes, ret, exc, stdout,
                   exit_status>>

\* the effect of one attempt on the state, given what the endpoint did
Attempt(resp) ==
    LET o == HandleAttempt(resp) IN
    /\ events' = Append(events, [ev |-> "post", secs |-> 0])
    /\ outcomes' = Append(outcomes, [resp |-> resp, flow |-> o.flow])
    /\ stdout' = IF o.log = "none" THEN stdout ELSE Append(stdout, Line(o.log))
    /\ ret' = o.ret
    /\ exc' = o.exc
    /\ pc' = CASE o.flow = "return" -> "Returned"
               [] o.flow = "raise" -> "Raised"
               [] o.flow = "fallthrough" -> "Backoff"

\* lines 113-127: one POST and what is done with its outcome
Request ==
    /\ pc = "Request"
    /\ \/ \E net \in NetFailures : Attempt(Response(net, 0, "none", JNull))
       \/ \E status \in BadStatuses : Attempt(Response("ok", status, "none", JNull))
       \/ Attempt(Response("ok", HTTP_OK, "JSONDecodeError", JNull))
       \/ \E b \in 1..Len(Bodies) : Attempt(Response("ok", HTTP_OK, "ok", Bodies[b]))
    /\ UNCHANGED <<path_kind, extractVars, user_prompt, attempt, stages, exit_status>>

\* lines 129-136: the backoff and the next turn of the loop, or, after the
\* last attempt, the terminal message and `return None`
Backoff ==
    /\ pc = "Backoff"
    /\ LET slept == SleepsAfter(attempt)
           out == IF slept THEN Append(stdout, Line(RetryingMsg)) ELSE stdout
       IN
       /\ events' = IF slept
                    THEN Append(events, [ev |-> "sleep", secs |-> Delay(attempt)])
                    ELSE events
       /\ IF attempt + 1 < MAX_RETRIES
          THEN /\ attempt' = attempt + 1
               /\ stdout' = out
               /\ pc' = "Request"
               /\ ret' = ret
          ELSE /\ attempt' = attempt
               /\ stdout' = Append(out, Line(TerminalMsg))
               /\ ret' = NoneValue
               /\ pc' = "Returned"
    /\ UNCHANGED <<path_kind, extractVars, user_prompt, outcomes, exc, stages,
                   exit_status>>

(***************************************************************************)
(* main, after generate_commit_message (src/main.py:155-168).              *)
(***************************************************************************)
NoMessageMsg == "No commit message generated."
SuggestedMsg == "Suggested commit message:"
SeparatorTag == "separator"
MessageTag == "message"
ErrorMsg == "An error occurred while generating the commit message:"
ManualMsg == "Please try again later or write the commit message manually."

\* lines 157-164: call_llm_api has returned
Finish ==
    /\ pc = "Returned"
    /\ IF ~ret.isNone
       THEN /\ stages' = Append(stages, "Render")
            /\ stdout' = stdout \o
                 << Line(SuggestedMsg),
                    LineWith(SeparatorTag, Repeat("=", SEPARATOR_WIDTH)),
                    LineWith(MessageTag, ret.str),
                    LineWith(SeparatorTag, Repeat("=", SEPARATOR_WIDTH)) >>
       ELSE /\ stdout' = Append(stdout, Line(NoMessageMsg))
            /\ stages' = stages
    /\ exit_status' = "normal"
    /\ pc' = "done"
    /\ UNCHANGED <<path_kind, extractVars, apiVars, exc>>

\* lines 166-168: an exception came out of generate_commit_message
HandleException ==
    /\ pc = "Raised"
    /\ stdout' = stdout \o <<Line(ErrorMsg), Line(ManualMsg)>>
    /\ exit_status' = "normal"
    /\ pc' = "done"
    /\ UNCHANGED <<path_kind, extractVars, apiVars, exc, stages>>

Next ==
    \/ ValidateRepo
    \/ QueryModified
    \/ ProcessFile
    \/ ReturnDiffs
    \/ GenerateMessage
    \/ Request
    \/ Backoff
    \/ Finish
    \/ HandleException

Spec == Init /\ [][Next]_vars

(***************************************************************************)
(* The line filter on its own: every diff text of at most MaxLines lines   *)
(* of LineSet, filtered as lines 57-64 filter it.                          *)
(***************************************************************************)
InitFilter ==
    /\ pc = "FilterInput"
    /\ in_lines \in LineSeqs(MaxLines)
    /\ diff_text = JoinStr(in_lines, <<NL>>)
    /\ Start

FilterLines ==
    /\ pc = "FilterInput"
    /\ processed_diff' = FilterDiff(diff_text)
    /\ pc' = "FilterDone"
    /\ UNCHANGED <<path_kind, items, idx, fetched, in_lines, diff_text, diffs,
                   bundle, apiVars, exc, stdout, stages, exit_status>>

NextFilter == FilterLines

SpecFilter == InitFilter /\ [][NextFilter]_vars


(***************************************************************************)
(* What the properties below read off the state.                           *)
(***************************************************************************)
IsPost(e) == e.ev = "post"
IsSleep(e) == e.ev = "sleep"

\* the number of POST requests sent
PostCount == Len(SelectSeq(events, IsPost))

\* the sleeps slept, in order, in seconds
SleepSecs ==
    LET sl == SelectSeq(events, IsSleep) IN [k \in 1..Len(sl) |-> sl[k].secs]

RECURSIVE SumSeq(_)
SumSeq(q) == IF q = <<>> THEN 0 ELSE Head(q) + SumSeq(Tail(q))

Printed(tag) == \E k \in 1..Len(stdout) : stdout[k].tag = tag

\* call_llm_api was entered and has been left
CallOver == outcomes # <<>> /\ pc \in {"Returned", "Raised", "done"}

\* an attempt that ended in a RequestException (raised by the POST, or by
\* the decoding of the body) or in a status other than 200
FailedRetryably(o) ==
    \/ o.resp.net \in {"ConnectionError", "Timeout"}
    \/ o.resp.net = "ok" /\ o.resp.status # 200
    \/ o.resp.net = "ok" /\ o.resp.status = 200 /\ o.resp.json = "JSONDecodeError"

AllFailedRetryably ==
    /\ Len(outcomes) = 3
    /\ \A k \in 1..3 : FailedRetryably(outcomes[k])

\* a 200 response whose JSON object has no `choices` field, or an empty
\* `choices` array
MalformedShape(o) ==
    /\ o.resp.net = "ok" /\ o.resp.status = 200 /\ o.resp.json = "ok"
    /\ o.resp.data.t = "dict"
    /\ \/ "choices" \notin DOMAIN o.resp.data.v
       \/ /\ "choices" \in DOMAIN o.resp.data.v
          /\ o.resp.data.v.choices.t = "list"
          /\ Len(o.resp.data.v.choices.v) = 0

\* C1: one call sends at most 3 POSTs; every attempt that ends in a
\* RequestException or a non-200 status uses up exactly one attempt and,
\* while attempts remain, is followed by another request; after three such
\* attempts the call returns None and has logged the terminal message,
\* which is logged in no other case.
C1_RetryPolicy ==
    /\ PostCount <= 3
    /\ PostCount = Len(outcomes)
    /\ pc = "Request" => attempt = Len(outcomes)
    /\ pc = "Backoff" => attempt + 1 = Len(outcomes)
    /\ \A k \in 1..Len(outcomes) :
         (FailedRetryably(outcomes[k]) /\ k < 3 /\ CallOver) => Len(outcomes) > k
    /\ \A k \in 1..Len(outcomes) :
         k < Len(outcomes) => FailedRetryably(outcomes[k])
    /\ (CallOver /\ AllFailedRetryably) =>
         /\ pc # "Raised"
         /\ ret.isNone
         /\ Printed(TerminalMsg)
    /\ Printed(TerminalMsg) => (CallOver /\ AllFailedRetryably)

C1_Witness ==
    /\ pc = "done"
    /\ AllFailedRetryably
    /\ outcomes[1].resp.net = "Timeout"
    /\ outcomes[2].resp.status = 500
    /\ outcomes[3].resp.net = "ConnectionError"
    /\ Printed(TerminalMsg)
    /\ PostCount = 3

AttemptBefore(k) == Len(SelectSeq(SubSeq(events, 1, k), IsPost)) - 1

\* what the claim's clauses on the sleeps share: each sleep comes right
\* after a POST and lasts BASE_DELAY * 2^attempt, none comes after the
\* third attempt, and each is followed by another POST
SleepsWellPlaced ==
    \A k \in 1..Len(events) :
        IsSleep(events[k]) =>
            /\ k > 1 /\ IsPost(events[k - 1])
            /\ AttemptBefore(k) < 2
            /\ events[k].secs = (IF AttemptBefore(k) = 0 THEN 1 ELSE 2)
            /\ k = Len(events) => pc = "Request"
            /\ k < Len(events) => IsPost(events[k + 1])

\* C3, as stated: a backoff delay for each of the attempts 0, 1 and 2, of
\* 1s, 2s and 4s, with no sleep after the final attempt and every sleep
\* followed by another request.
C3_Original ==
    /\ SleepsWellPlaced
    /\ (CallOver /\ AllFailedRetryably) => SleepSecs = <<1, 2, 4>>

\* C3, amended: the backoff delays after the attempts 0 and 1 are exactly
\* 1s and 2s (BASE_DELAY * 2^attempt); the final attempt, attempt 2, has no
\* backoff delay (no 4s delay is ever computed or slept); every sleep that
\* is performed is followed by another request attempt.
C3_BackoffDelays ==
    /\ SleepsWellPlaced
    /\ SleepSecs \in {<<>>, <<1>>, <<1, 2>>}
    /\ \A k \in 1..Len(outcomes) :
         (FailedRetryably(outcomes[k]) /\ k < 3 /\ pc # "Backoff") =>
             Len(SleepSecs) >= k
    /\ (CallOver /\ AllFailedRetryably) => SleepSecs = <<1, 2>>

C3_Witness ==
    /\ pc = "Request"
    /\ attempt = 2
    /\ SleepSecs = <<1, 2>>
    /\ IsSleep(events[Len(events)])

\* C4, as stated: when all 3 attempts fail retryably the backoff sleeps sum
\* to 1+2+4 = 7 seconds, and the summed backoff never exceeds 7 seconds.
C4_Original ==
    /\ (CallOver /\ AllFailedRetryably) => SumSeq(SleepSecs) = 7
    /\ SumSeq(SleepSecs) <= 7

\* C4, amended: when all 3 attempts fail retryably the backoff sleeps sum
\* to 1+2 = 3 seconds, and over any other sequence of outcomes the summed
\* backoff never exceeds 3 seconds.
C4_TotalBackoff ==
    /\ (CallOver /\ AllFailedRetryably) => SumSeq(SleepSecs) = 3
    /\ SumSeq(SleepSecs) <= 3

C4_Witness ==
    /\ pc = "done"
    /\ AllFailedRetryably
    /\ \A k \in 1..3 : outcomes[k].resp.status = 500
    /\ SumSeq(SleepSecs) = 3
    /\ Printed(NoMessageMsg)

\* C5: call_llm_api never raises past its own boundary: whatever each
\* attempt's outcome, the call ends by returning a string or None.
C5_NeverRaises ==
    /\ pc # "Raised"
    /\ \A k \in 1..Len(outcomes) : outcomes[k].flow # "raise"


InStages(st) == \E k \in 1..Len(stages) : stages[k] = st

StageOrder == <<"ValidateRepo", "ExtractDiffs", "GenerateMessage", "Render">>

StagesInOrder ==
    /\ Len(stages) <= 4
    /\ \A k \in 1..Len(stages) : stages[k] = StageOrder[k]

\* get_git_diffs has returned its bundle to main
ExtractionReturned ==
    /\ InStages("ExtractDiffs")
    /\ pc # "ForItem"
    /\ exit_status # "crash"

\* C6: the stages run in the order ValidateRepo, ExtractDiffs,
\* GenerateMessage, Render; a run whose path is not a valid repository
\* prints the not-a-repository error, attempts no extraction and sends no
\* request; a run whose bundle is empty prints "No changes detected in the
\* repository." and sends no request.
C6_NoNetworkOnEarlyExit ==
    /\ StagesInOrder
    /\ path_kind \in {"plain_directory", "missing_path"} =>
         /\ Printed(NotARepositoryMsg)
         /\ ~InStages("ExtractDiffs")
         /\ fetched = <<>>
         /\ PostCount = 0
         /\ outcomes = <<>>
         /\ pc = "done"
    /\ (ExtractionReturned /\ bundle = <<>>) =>
         /\ Printed(NoChangesMsg)
         /\ ~InStages("GenerateMessage")
         /\ PostCount = 0
         /\ outcomes = <<>>
         /\ pc = "done"

\* C7: once the arguments are parsed, main always returns normally: no
\* failure of validation, of the modified-file query, of a file's diff or
\* of the generation escapes it as a crash.
C7_AlwaysReturnsNormally == exit_status # "crash"

\* a 200 response with a non-empty `choices` array whose first choice
\* holds a string as its message content
Usable(o) ==
    /\ o.resp.net = "ok" /\ o.resp.status = 200 /\ o.resp.json = "ok"
    /\ o.resp.data.t = "dict"
    /\ "choices" \in DOMAIN o.resp.data.v
    /\ o.resp.data.v.choices.t = "list"
    /\ Len(o.resp.data.v.choices.v) > 0
    /\ o.resp.data.v.choices.v[1].t = "dict"
    /\ "message" \in DOMAIN o.resp.data.v.choices.v[1].v
    /\ o.resp.data.v.choices.v[1].v.message.t = "dict"
    /\ "content" \in DOMAIN o.resp.data.v.choices.v[1].v.message.v
    /\ o.resp.data.v.choices.v[1].v.message.v.content.t = "str"

ContentOf(o) == o.resp.data.v.choices.v[1].v.message.v.content.v

Blank(c) == c \in {" ", "\n", "\t", "\r"}

\* t is s without its leading and trailing whitespace
IsTrimOf(t, s) ==
    \E i \in 1..(Len(s) + 1) : \E j \in 0..Len(s) :
        /\ i <= j + 1
        /\ \A k \in 1..(i - 1) : Blank(s[k])
        /\ \A k \in (j + 1)..Len(s) : Blank(s[k])
        /\ t = SubSeq(s, i, j)
        /\ t # <<>> => (~Blank(t[1]) /\ ~Blank(t[Len(t)]))

IsSeparator(l) ==
    /\ l.tag = SeparatorTag
    /\ Len(l.body) = 50
    /\ \A k \in 1..50 : l.body[k] = "="

FramedTags == {SeparatorTag, MessageTag, SuggestedMsg}

\* C8: the driver renders (the message between two lines of 50 `=`)
\* exactly when the API client returned a message, which is the first
\* choice's content, trimmed, of a 200 response with a non-empty `choices`
\* array; on every other path no suggested message and no separator line
\* is printed, and an absent answer prints "No commit message generated."
C8_RenderExactlyOnMessage ==
    /\ (pc = "done" /\ exit_status = "normal") =>
         (InStages("Render") <=>
            (outcomes # <<>> /\ Usable(outcomes[Len(outcomes)])))
    /\ InStages("Render") =>
         LET n == Len(stdout) IN
         /\ pc = "done"
         /\ n >= 4
         /\ stdout[n - 3].tag = SuggestedMsg
         /\ IsSeparator(stdout[n - 2])
         /\ stdout[n - 1].tag = MessageTag
         /\ IsTrimOf(stdout[n - 1].body, ContentOf(outcomes[Len(outcomes)]))
         /\ IsSeparator(stdout[n])
         /\ \A k \in 1..(n - 4) : stdout[k].tag \notin FramedTags
         /\ ~Printed(NoMessageMsg)
    /\ ~InStages("Render") =>
         \A k \in 1..Len(stdout) : stdout[k].tag \notin FramedTags
    /\ (pc = "done" /\ CallOver /\ outcomes[Len(outcomes)].flow # "raise"
          /\ ~Usable(outcomes[Len(outcomes)])) =>
         Printed(NoMessageMsg)

C8_Witness ==
    /\ pc = "done"
    /\ InStages("Render")
    /\ Len(outcomes) = 2
    /\ ContentOf(outcomes[2]) = C_Padded
    /\ stdout[Len(stdout) - 1].body = <<"f", "e", "a", "t", ":", " ", "X">>

\* a line that starts with `+`, `-`, `@@`, `diff --git`, `---`, `+++` or
\* `index `
Retained(line) ==
    \/ Len(line) >= 1 /\ line[1] \in {"+", "-"}
    \/ Len(line) >= 2 /\ SubSeq(line, 1, 2) = <<"@", "@">>
    \/ Len(line) >= 10 /\
         SubSeq(line, 1, 10) = <<"d", "i", "f", "f", " ", "-", "-", "g", "i", "t">>
    \/ Len(line) >= 3 /\ SubSeq(line, 1, 3) = <<"-", "-", "-">>
    \/ Len(line) >= 3 /\ SubSeq(line, 1, 3) = <<"+", "+", "+">>
    \/ Len(line) >= 6 /\ SubSeq(line, 1, 6) = <<"i", "n", "d", "e", "x", " ">>

RECURSIVE Glued(_, _)
Glued(pieces, sep) ==
    IF pieces = <<>> THEN <<>>
    ELSE IF Tail(pieces) = <<>> THEN Head(pieces)
    ELSE Head(pieces) \o sep \o Glued(Tail(pieces), sep)

\* the blocks the claim expects of the files processed so far: for each
\* file retrieved without error that has a retained line, the line
\* `File: <path>` and under it the retained lines
RECURSIVE ExpectedBlocks(_)
ExpectedBlocks(f) ==
    IF f = <<>> THEN <<>>
    ELSE LET e == Head(f)
             kept == SelectSeq(e.lines, Retained)
             title == <<"F", "i", "l", "e", ":", " ">> \o e.path
         IN (IF ~e.raised /\ kept # <<>>
             THEN <<Glued(<<title>> \o kept, <<"\n">>)>>
             ELSE <<>>) \o ExpectedBlocks(Tail(f))

\* C10: the bundle holds one `File: <path>` block per file whose diff was
\* retrieved without error and has a retained line, in the order the files
\* were reported; a file with an empty filtered diff or a failed retrieval
\* adds no block and does not stop the files after it; the result is the
\* empty string when no file yields content.
C10_BundleBlocks ==
    LET expected == ExpectedBlocks(fetched) IN
    /\ Len(fetched) <= Len(items)
    /\ \A k \in 1..Len(fetched) : fetched[k].path = items[k]
    /\ diffs = expected
    /\ Len(diffs) <= Len(items)
    /\ ExtractionReturned =>
         /\ Len(fetched) = Len(items)
         /\ (bundle = <<>>) <=> (expected = <<>>)
         /\ bundle = Glued(expected, <<"\n", "\n">>)

C10_Witness ==
    /\ pc = "GenerateMessage"
    /\ Len(fetched) = 3
    /\ fetched[1].lines = FileCases[3]
    /\ fetched[2].raised
    /\ fetched[3].lines = FileCases[2]
    /\ Len(diffs) = 2

====
